---- MODULE Spec2Model ----
(***************************************************************************)
(* Kuda bank statement analyzer: the statement parser (utils.py), the      *)
(* three table transforms and the upload handling of the UI (app.py).      *)
(*                                                                         *)
(* Text is a TLA+ string; a character is a string of length 1.  A cell of  *)
(* the raw grid is a record whose field k tells what pandas read:          *)
(*   "nan" absent, "str" text s, "int"/"float" the number m / 10^e.        *)
(* An optional value (Python None or a value) is <<>> or <<v>>.            *)
(***************************************************************************)
EXTENDS Integers, Sequences, FiniteSets, TLC

VARIABLES
    upload,             \* the file handed to process_kuda_excel
    header_row_idx,     \* <<>> (None) or <<i>>
    column_indices,     \* insertion-ordered dict: sequence of <<name, index>>
    df_final,           \* [columns, rows] returned by process_kuda_excel
    attrs,              \* df_final.attrs
    raised,             \* <<>> or <<exception>> leaving process_kuda_excel
    calls,              \* what the last call of the parser went through
    statement,          \* the local df of process_bank_statement
    df_in,              \* the table the last transform was called with
    heap,               \* the DataFrame objects of process_bank_statement, by identity
    df_id,              \* the object the local df names (0: none)
    step,               \* how far process_bank_statement has come
    handling,           \* per script run of app.py: its position and its locals
    sys_stdout,         \* sys.stdout, one per process
    streams             \* what was printed where: pairs <<stream, writer>>

vars == <<upload, header_row_idx, column_indices, df_final, attrs, raised, calls,
          statement, df_in, heap, df_id, step, handling, sys_stdout, streams>>

parser_vars == <<upload, header_row_idx, column_indices, df_final, attrs, raised, calls>>
statement_vars == <<statement, df_in, heap, df_id, step>>
upload_vars == <<handling, sys_stdout, streams>>

----------------------------------------------------------------------------
(* Python str primitives *)

CharAt(s, i) == SubSeq(s, i, i)

UpperChars == "ABCDEFGHIJKLMNOPQRSTUVWXYZ"
LowerChars == "abcdefghijklmnopqrstuvwxyz"
DigitChars == "0123456789"

IndexIn(c, alphabet) ==
    IF \E i \in 1..Len(alphabet) : CharAt(alphabet, i) = c
    THEN CHOOSE i \in 1..Len(alphabet) : CharAt(alphabet, i) = c
    ELSE 0

UpperSet == {CharAt(UpperChars, i) : i \in 1..Len(UpperChars)}
DigitSet == {CharAt(DigitChars, i) : i \in 1..Len(DigitChars)}
ToLower == [c \in UpperSet |-> CharAt(LowerChars, IndexIn(c, UpperChars))]

LowerChar(c) == IF c \in UpperSet THEN ToLower[c] ELSE c

RECURSIVE Lower(_)
Lower(s) == IF s = "" THEN "" ELSE LowerChar(CharAt(s, 1)) \o Lower(SubSeq(s, 2, Len(s)))

\* sub in s
Contains(sub, s) ==
    \E i \in 1..(Len(s) - Len(sub) + 1) : SubSeq(s, i, i + Len(sub) - 1) = sub

IsSpace(c) == c \in {" ", "\t", "\n"}

RECURSIVE LStrip(_)
LStrip(s) == IF s # "" /\ IsSpace(CharAt(s, 1)) THEN LStrip(SubSeq(s, 2, Len(s))) ELSE s

RECURSIVE RStrip(_)
RStrip(s) ==
    IF s # "" /\ IsSpace(CharAt(s, Len(s))) THEN RStrip(SubSeq(s, 1, Len(s) - 1)) ELSE s

Strip(s) == RStrip(LStrip(s))

IsDigitChar(c) == c \in DigitSet

\* str.isdigit(): non-empty and digits only
IsDigit(s) == s # "" /\ \A i \in 1..Len(s) : IsDigitChar(CharAt(s, i))

\* s.replace(c, '') for a single character c
RECURSIVE RemoveChar(_, _)
RemoveChar(s, c) ==
    IF s = "" THEN ""
    ELSE (IF CharAt(s, 1) = c THEN "" ELSE CharAt(s, 1)) \o RemoveChar(SubSeq(s, 2, Len(s)), c)

\* ' '.join(parts)
RECURSIVE Join(_)
Join(parts) ==
    IF parts = <<>> THEN ""
    ELSE IF Len(parts) = 1 THEN parts[1]
    ELSE parts[1] \o " " \o Join(Tail(parts))

RECURSIVE NatToStr(_)
NatToStr(n) ==
    IF n < 10 THEN CharAt(DigitChars, n + 1)
    ELSE NatToStr(n \div 10) \o CharAt(DigitChars, (n % 10) + 1)

RECURSIVE Pow10(_)
Pow10(e) == IF e = 0 THEN 1 ELSE 10 * Pow10(e - 1)

RECURSIVE ZeroPad(_, _)
ZeroPad(s, width) == IF Len(s) >= width THEN s ELSE ZeroPad("0" \o s, width)

----------------------------------------------------------------------------
(* Cells *)

NaN == [k |-> "nan"]
Txt(s) == [k |-> "str", s |-> s]
Int_(m) == [k |-> "int", m |-> m, e |-> 0]

\* a float m / 10^e, kept with no trailing zero in its fraction
RECURSIVE Float(_, _)
Float(m, e) ==
    IF e > 0 /\ m % 10 = 0 THEN Float(m \div 10, e - 1) ELSE [k |-> "float", m |-> m, e |-> e]

\* pd.notna / pd.isna
NotNa(c) == c.k # "nan"
IsNa(c) == c.k = "nan"

Abs(m) == IF m < 0 THEN 0 - m ELSE m

\* str(x)
Str(c) ==
    CASE c.k = "nan" -> "nan"
      [] c.k = "str" -> c.s
      [] c.k = "int" -> (IF c.m < 0 THEN "-" ELSE "") \o NatToStr(Abs(c.m))
      [] c.k = "float" ->
            (IF c.m < 0 THEN "-" ELSE "")
            \o NatToStr(Abs(c.m) \div Pow10(c.e)) \o "."
            \o (IF c.e = 0 THEN "0" ELSE ZeroPad(NatToStr(Abs(c.m) % Pow10(c.e)), c.e))

----------------------------------------------------------------------------
(* process_kuda_excel: the header locator.  Row and column indices are     *)
(* Python's (from 0); a grid is a sequence of rows, a row a sequence of    *)
(* cells.                                                                  *)

RowAt(df, i) == df[i + 1]
CellAt(row, j) == row[j + 1]

RowFixed == 15
ColFixed == 2

\* [str(x).lower() for x in row.values]
row_str(row) == [j \in 1..Len(row) |-> Lower(Str(row[j]))]

\* [str(x).lower() for x in row.values if pd.notna(x)]
RECURSIVE row_values(_)
row_values(row) ==
    IF row = <<>> THEN <<>>
    ELSE (IF NotNa(Head(row)) THEN <<Lower(Str(Head(row)))>> ELSE <<>>) \o row_values(Tail(row))

InList(x, list) == \E j \in 1..Len(list) : list[j] = x

\* the check of cell C16
PositionalHit(df_raw) ==
    /\ Len(df_raw) > RowFixed
    /\ Len(RowAt(df_raw, RowFixed)) > ColFixed
    /\ Contains("date/time", Lower(Str(CellAt(RowAt(df_raw, RowFixed), ColFixed))))

\* any(x.lower() == 'date/time' for x in row_str)
ExactHit(row) == \E j \in 1..Len(row) : Lower(row_str(row)[j]) = "date/time"

\* any('date' in ...) and any('money' in ...)
AlternativeHit(row) ==
    /\ \E j \in 1..Len(row) : Contains("date", Lower(row_str(row)[j]))
    /\ \E j \in 1..Len(row) : Contains("money", Lower(row_str(row)[j]))

\* the body of the general search loop: either test stops the loop at row i
GeneralHit(row) == ExactHit(row) \/ AlternativeHit(row)

\* the partial search without its test of "date" and "time"
PartialHitMoneyOnly(row) ==
    LET rv == row_values(row)
        joined == Join(rv)
    IN \/ Contains("money", joined)
       \/ Contains("balance", joined)

PartialHit(row) ==
    LET rv == row_values(row)
        joined == Join(rv)
    IN /\ \/ InList("date", rv)
          \/ InList("time", rv)
          \/ Contains("date/time", joined)
       /\ \/ Contains("money", joined)
          \/ Contains("balance", joined)

\* for i, row in df_raw.iterrows(): if Hit(row): header_row_idx = i; break
FirstRow(hits) ==
    IF hits = {} THEN <<>> ELSE <<CHOOSE i \in hits : \A h \in hits : i <= h>>

\* the rows the general search, and the partial search, would stop at
GeneralRows(df_raw) == {i \in 0..(Len(df_raw) - 1) : GeneralHit(RowAt(df_raw, i))}
PartialRows(df_raw) == {i \in 0..(Len(df_raw) - 1) : PartialHit(RowAt(df_raw, i))}

\* the general search tried before the check of cell C16
LocateHeaderScanFirst(df_raw) ==
    IF FirstRow(GeneralRows(df_raw)) # <<>> THEN FirstRow(GeneralRows(df_raw))
    ELSE IF PositionalHit(df_raw) THEN <<RowFixed>>
    ELSE FirstRow(PartialRows(df_raw))

LocateHeader(df_raw) ==
    IF PositionalHit(df_raw) THEN <<RowFixed>>
    ELSE IF FirstRow(GeneralRows(df_raw)) # <<>> THEN FirstRow(GeneralRows(df_raw))
    ELSE FirstRow(PartialRows(df_raw))

----------------------------------------------------------------------------
(* process_kuda_excel: the column mapper and the table builder *)

\* the dict required_columns, in its insertion order: <<key, standard name>>
required_columns ==
    << <<"date/time", "Date/Time">>, <<"money in", "Money In">>,
       <<"money out", "Money out">>, <<"category", "Category">>,
       <<"to / from", "To / From">>, <<"description", "Description">>,
       <<"balance", "Balance">> >>

required_columns_list ==
    <<"Date/Time", "Money In", "Money out", "Category", "To / From", "Description", "Balance">>

\* d[name] = i on an insertion-ordered dict
DictSet(d, name, i) ==
    IF \E q \in 1..Len(d) : d[q][1] = name
    THEN [q \in 1..Len(d) |-> IF d[q][1] = name THEN <<name, i>> ELSE d[q]]
    ELSE Append(d, <<name, i>>)

DictHas(d, name) == \E q \in 1..Len(d) : d[q][1] = name
DictGet(d, name) == (CHOOSE q \in {d[r] : r \in 1..Len(d)} : q[1] = name)[2]

\* for key in required_columns: if Match(key): ...; break
FirstKey(ks) ==
    IF ks = {} THEN <<>>
    ELSE <<required_columns[CHOOSE q \in ks : \A r \in ks : q <= r][2]>>

\* the header text compared as it is written, trimmed only
cell_str_as_written(cell) == Strip(Str(cell))

\* str(cell).strip().lower()
cell_str(cell) == Lower(Strip(Str(cell)))

\* the first pass over the header row, from column i on
RECURSIVE ExactPass(_, _, _)
ExactPass(header_row, i, d) ==
    IF i >= Len(header_row) THEN d
    ELSE LET cs == cell_str(CellAt(header_row, i))
             hit == FirstKey({q \in 1..Len(required_columns) : required_columns[q][1] = cs})
         IN ExactPass(header_row, i + 1, IF hit = <<>> THEN d ELSE DictSet(d, hit[1], i))

\* the second pass, from column i on
RECURSIVE FlexiblePass(_, _, _)
FlexiblePass(header_row, i, d) ==
    IF i >= Len(header_row) THEN d
    ELSE IF IsNa(CellAt(header_row, i)) THEN FlexiblePass(header_row, i + 1, d)
    ELSE LET cs == cell_str(CellAt(header_row, i))
             hit == FirstKey({q \in 1..Len(required_columns) :
                                Contains(required_columns[q][1], cs)})
         IN FlexiblePass(header_row, i + 1, IF hit = <<>> THEN d ELSE DictSet(d, hit[1], i))

MapColumns(header_row) ==
    LET first == ExactPass(header_row, 0, <<>>)
    IN IF Len(first) < Len(required_columns) THEN FlexiblePass(header_row, 0, first) ELSE first

\* the name given to column i of the transaction rows
FinalColumn(d, i) ==
    LET qs == {q \in 1..Len(d) : d[q][2] = i}
    IN IF qs = {} THEN "column_" \o NatToStr(i)
       ELSE d[CHOOSE q \in qs : \A r \in qs : q <= r][1]

final_columns(header_row, d) == [j \in 1..Len(header_row) |-> FinalColumn(d, j - 1)]

\* the header row kept as the first transaction row
TransactionsWithHeader(df_raw, h, d) ==
    [columns |-> final_columns(RowAt(df_raw, h), d),
     rows |-> SubSeq(df_raw, h + 1, Len(df_raw))]

\* df_raw.iloc[header_row_idx:] with the columns renamed and the header row skipped
Transactions(df_raw, h, d) ==
    [columns |-> final_columns(RowAt(df_raw, h), d),
     rows |-> SubSeq(df_raw, h + 2, Len(df_raw))]

\* for col in required_columns_list: if col not in df.columns: df[col] = np.nan
RECURSIVE AddMissing(_, _)
AddMissing(df, q) ==
    IF q > Len(required_columns_list) THEN df
    ELSE LET col == required_columns_list[q]
         IN AddMissing(IF InList(col, df.columns) THEN df
                       ELSE [columns |-> Append(df.columns, col),
                             rows |-> [r \in 1..Len(df.rows) |-> Append(df.rows[r], NaN)]],
                       q + 1)

\* the positions of the columns that df[names] selects: every column so named
RECURSIVE Positions(_, _)
Positions(columns, names) ==
    IF names = <<>> THEN <<>>
    ELSE SelectSeq([p \in 1..Len(columns) |-> p], LAMBDA p : columns[p] = Head(names))
         \o Positions(columns, Tail(names))

\* df[columns_to_keep]
SelectColumns(df, names) ==
    LET ps == Positions(df.columns, names)
    IN [columns |-> [q \in 1..Len(ps) |-> df.columns[ps[q]]],
        rows |-> [r \in 1..Len(df.rows) |-> [q \in 1..Len(ps) |-> df.rows[r][ps[q]]]]]

BuildTable(df_raw, h, d) ==
    SelectColumns(AddMissing(Transactions(df_raw, h, d), 1), required_columns_list)

----------------------------------------------------------------------------
(* process_kuda_excel: account and summary information above the header *)

\* ' '.join([str(x) for x in row if pd.notna(x)]).lower()
RECURSIVE NotNaStrs(_)
NotNaStrs(row) ==
    IF row = <<>> THEN <<>>
    ELSE (IF NotNa(Head(row)) THEN <<Str(Head(row))>> ELSE <<>>) \o NotNaStrs(Tail(row))

row_text(row) == Lower(Join(NotNaStrs(row)))

\* pd.notna(cell) and word in str(cell).lower()
Mentions(cell, word) == NotNa(cell) /\ Contains(word, Lower(Str(cell)))

Min(a, b) == IF a < b THEN a ELSE b

\* the value looked for two cells after the mention instead of one
RECURSIVE AccountFromTwoLater(_, _, _)
AccountFromTwoLater(row, j, account_number) ==
    IF j >= Len(row) THEN account_number
    ELSE IF Mentions(CellAt(row, j), "account")
    THEN IF j + 2 < Len(row) /\ NotNa(CellAt(row, j + 2))
         THEN <<Str(CellAt(row, j + 2))>>
         ELSE IF j - 1 >= 0 /\ NotNa(CellAt(row, j - 1)) /\ IsDigit(Str(CellAt(row, j - 1)))
         THEN <<Str(CellAt(row, j - 1))>>
         ELSE AccountFromTwoLater(row, j + 1, account_number)
    ELSE AccountFromTwoLater(row, j + 1, account_number)

\* the loop over the cells of a row that mentions 'account', from cell j on
RECURSIVE AccountFrom(_, _, _)
AccountFrom(row, j, account_number) ==
    IF j >= Len(row) THEN account_number
    ELSE IF Mentions(CellAt(row, j), "account")
    THEN IF j + 1 < Len(row) /\ NotNa(CellAt(row, j + 1))
         THEN <<Str(CellAt(row, j + 1))>>
         ELSE IF j - 1 >= 0 /\ NotNa(CellAt(row, j - 1)) /\ IsDigit(Str(CellAt(row, j - 1)))
         THEN <<Str(CellAt(row, j - 1))>>
         ELSE AccountFrom(row, j + 1, account_number)
    ELSE AccountFrom(row, j + 1, account_number)

\* the test of the cells after a balance cell
BalanceLike(cell) ==
    /\ NotNa(cell)
    /\ \/ Contains("₦", Str(cell))
       \/ Contains("n", Lower(Str(cell)))
       \/ IsDigit(RemoveChar(RemoveChar(Str(cell), ","), "."))

\* for k in range(j+1, min(j+3, len(row))): first cell that passes, else unchanged
BalanceWindow(row, j, closing_balance) ==
    LET ks == {k \in (j + 1)..(Min(j + 3, Len(row)) - 1) : BalanceLike(CellAt(row, k))}
    IN IF ks = {} THEN closing_balance
       ELSE <<Str(CellAt(row, CHOOSE k \in ks : \A l \in ks : k <= l))>>

RECURSIVE BalanceFrom(_, _, _)
BalanceFrom(row, j, closing_balance) ==
    IF j >= Len(row) THEN closing_balance
    ELSE IF Mentions(CellAt(row, j), "balance") \/ Mentions(CellAt(row, j), "closing")
    THEN BalanceFrom(row, j + 1, BalanceWindow(row, j, closing_balance))
    ELSE BalanceFrom(row, j + 1, closing_balance)

\* for k, cell in enumerate(row_data): the cell after each mention of word, the last one kept
RECURSIVE SummaryCells(_, _, _, _)
SummaryCells(row_data, k, word, value) ==
    IF k >= Len(row_data) THEN value
    ELSE IF /\ Mentions(CellAt(row_data, k), word)
            /\ k + 1 < Len(row_data)
            /\ NotNa(CellAt(row_data, k + 1))
    THEN SummaryCells(row_data, k + 1, word, <<Str(CellAt(row_data, k + 1))>>)
    ELSE SummaryCells(row_data, k + 1, word, value)

SummaryLookAhead == 5

\* for j in range(summary_row + 1, min(summary_row + 5, header_row_idx))
RECURSIVE SummaryFrom(_, _, _, _, _)
SummaryFrom(df_raw, j, last, word, value) ==
    IF j >= last \/ j >= Len(df_raw) THEN value
    ELSE LET row_data == RowAt(df_raw, j)
         IN SummaryFrom(df_raw, j + 1, last, word,
                        IF Contains(word, row_text(row_data))
                        THEN SummaryCells(row_data, 0, word, value)
                        ELSE value)

NoMetadata ==
    [account_number |-> <<>>, closing_balance |-> <<>>, summary_in |-> <<>>, summary_out |-> <<>>]

\* an account number and a closing balance, once found, kept against later rows
MetadataRowFirstWins(df_raw, i, h, m) ==
    LET row == RowAt(df_raw, i)
        text == row_text(row)
        last == Min(i + SummaryLookAhead, h)
        summary == Contains("summary", text)
    IN [account_number |->
            IF Contains("account", text) /\ m.account_number = <<>>
            THEN AccountFrom(row, 0, m.account_number)
            ELSE m.account_number,
        closing_balance |->
            IF (Contains("balance", text) \/ Contains("closing", text))
               /\ m.closing_balance = <<>>
            THEN BalanceFrom(row, 0, m.closing_balance)
            ELSE m.closing_balance,
        summary_in |->
            IF summary THEN SummaryFrom(df_raw, i + 1, last, "money in", m.summary_in)
            ELSE m.summary_in,
        summary_out |->
            IF summary THEN SummaryFrom(df_raw, i + 1, last, "money out", m.summary_out)
            ELSE m.summary_out]

\* the summary look-ahead not stopped by the header row
MetadataRowPastHeader(df_raw, i, h, m) ==
    LET row == RowAt(df_raw, i)
        text == row_text(row)
        last == i + SummaryLookAhead
        summary == Contains("summary", text)
    IN [account_number |->
            IF Contains("account", text) THEN AccountFrom(row, 0, m.account_number)
            ELSE m.account_number,
        closing_balance |->
            IF Contains("balance", text) \/ Contains("closing", text)
            THEN BalanceFrom(row, 0, m.closing_balance)
            ELSE m.closing_balance,
        summary_in |->
            IF summary THEN SummaryFrom(df_raw, i + 1, last, "money in", m.summary_in)
            ELSE m.summary_in,
        summary_out |->
            IF summary THEN SummaryFrom(df_raw, i + 1, last, "money out", m.summary_out)
            ELSE m.summary_out]

\* one turn of the loop over the rows above the header
MetadataRow(df_raw, i, h, m) ==
    LET row == RowAt(df_raw, i)
        text == row_text(row)
        last == Min(i + SummaryLookAhead, h)
        summary == Contains("summary", text)
    IN [account_number |->
            IF Contains("account", text) THEN AccountFrom(row, 0, m.account_number)
            ELSE m.account_number,
        closing_balance |->
            IF Contains("balance", text) \/ Contains("closing", text)
            THEN BalanceFrom(row, 0, m.closing_balance)
            ELSE m.closing_balance,
        summary_in |->
            IF summary THEN SummaryFrom(df_raw, i + 1, last, "money in", m.summary_in)
            ELSE m.summary_in,
        summary_out |->
            IF summary THEN SummaryFrom(df_raw, i + 1, last, "money out", m.summary_out)
            ELSE m.summary_out]

\* for i, row in df_raw.iterrows(): if i >= header_row_idx: break
RECURSIVE ExtractMetadata(_, _, _, _)
ExtractMetadata(df_raw, i, h, m) ==
    IF i >= h \/ i >= Len(df_raw) THEN m
    ELSE ExtractMetadata(df_raw, i + 1, h, MetadataRow(df_raw, i, h, m))

----------------------------------------------------------------------------
(* process_kuda_excel as a whole.  A file is what the two pandas engines   *)
(* make of it: each either reads the grid (<<>>) or fails (<<message>>).   *)

ValueError(msg) == [type |-> "ValueError", msg |-> msg]

\* except Exception as e: raise Exception(f"Error processing Kuda Bank Excel file: {str(e)}")
Reraise(e) == [type |-> "Exception", msg |-> "Error processing Kuda Bank Excel file: " \o e.msg]

BothEnginesFailed(e1) ==
    ValueError("Failed to read Excel file with both engines. Original error: " \o e1)

HeaderNotFound ==
    ValueError("Could not find the transaction data header in the Excel file. "
               \o "Looking for 'Date/Time' or similar headers in row 15 at cell C16.")

NoTable == [columns |-> <<>>, rows |-> <<>>]
NoStatement == [columns |-> <<>>, index |-> <<>>, rows |-> <<>>]

Failed(e, done) ==
    [raised |-> <<Reraise(e)>>, header_row_idx |-> <<>>, column_indices |-> <<>>,
     df_final |-> NoTable, attrs |-> NoMetadata, calls |-> done]

\* the body of the parser once df_raw is read
ParseGrid(df_raw, done) ==
    LET h == LocateHeader(df_raw)
    IN IF h = <<>> THEN Failed(HeaderNotFound, done \o <<"locate">>)
       ELSE LET d == MapColumns(RowAt(df_raw, h[1]))
            IN [raised |-> <<>>,
                header_row_idx |-> h,
                column_indices |-> d,
                df_final |-> BuildTable(df_raw, h[1], d),
                attrs |-> ExtractMetadata(df_raw, 0, h[1], NoMetadata),
                calls |-> done \o <<"locate", "map", "metadata", "build">>]

\* the parser reporting the error of the alternate reader
process_kuda_excel_reports_xlrd(excel_file) ==
    IF excel_file.openpyxl = <<>> THEN ParseGrid(excel_file.grid, <<"openpyxl">>)
    ELSE IF excel_file.xlrd = <<>> THEN ParseGrid(excel_file.grid, <<"openpyxl", "xlrd">>)
    ELSE Failed(BothEnginesFailed(excel_file.xlrd[1]), <<"openpyxl", "xlrd">>)

process_kuda_excel(excel_file) ==
    IF excel_file.openpyxl = <<>> THEN ParseGrid(excel_file.grid, <<"openpyxl">>)
    ELSE IF excel_file.xlrd = <<>> THEN ParseGrid(excel_file.grid, <<"openpyxl", "xlrd">>)
    ELSE Failed(BothEnginesFailed(excel_file.openpyxl[1]), <<"openpyxl", "xlrd">>)

----------------------------------------------------------------------------
(* The transforms of process_bank_statement.  A table is [columns, index,  *)
(* rows]: the column names, the row labels and the cells of each row.      *)

ColumnOf(df, name) == CHOOSE q \in 1..Len(df.columns) : df.columns[q] = name

\* the cells of df[name]; none when the column does not exist
Cells(df, name) ==
    IF ~InList(name, df.columns) THEN {}
    ELSE {df.rows[r][ColumnOf(df, name)] : r \in 1..Len(df.rows)}

\* df[name] = df[name].apply(f), when the column exists; f maps each cell of
\* the column to its new value
ApplyColumn(df, name, f) ==
    IF ~InList(name, df.columns) THEN df
    ELSE LET q == ColumnOf(df, name)
         IN [df EXCEPT !.rows = [r \in 1..Len(df.rows) |->
                                    [df.rows[r] EXCEPT ![q] = f[df.rows[r][q]]]]]

\* Series.replace(old, np.nan) on one cell
ReplaceWithNaN(cell, old) == IF cell = Txt(old) THEN NaN ELSE cell

\* re.sub(r'[^\d.]', '', x_str)
RECURSIVE StripNonNumeric(_)
StripNonNumeric(s) ==
    IF s = "" THEN ""
    ELSE (IF IsDigitChar(CharAt(s, 1)) \/ CharAt(s, 1) = "." THEN CharAt(s, 1) ELSE "")
         \o StripNonNumeric(SubSeq(s, 2, Len(s)))

RECURSIVE DigitsToNat(_)
DigitsToNat(s) ==
    IF s = "" THEN 0
    ELSE 10 * DigitsToNat(SubSeq(s, 1, Len(s) - 1)) + (IndexIn(CharAt(s, Len(s)), DigitChars) - 1)

CountChar(s, c) == Cardinality({i \in 1..Len(s) : CharAt(s, i) = c})

\* float(s) for a text of digits, points and a leading sign: <<>> when it raises
\* ValueError, else <<the number>>
PyFloat(s) ==
    LET t == Strip(s)
        signed == t # "" /\ CharAt(t, 1) \in {"-", "+"}
        body == IF signed THEN SubSeq(t, 2, Len(t)) ELSE t
        point == IF CountChar(body, ".") = 0 THEN Len(body) + 1
                 ELSE CHOOSE i \in 1..Len(body) : CharAt(body, i) = "."
        whole == SubSeq(body, 1, point - 1)
        frac == SubSeq(body, point + 1, Len(body))
        m == DigitsToNat(whole \o frac)
    IN IF /\ CountChar(body, ".") <= 1
          /\ whole \o frac # ""
          /\ \A i \in 1..Len(body) : IsDigitChar(CharAt(body, i)) \/ CharAt(body, i) = "."
       THEN <<Float(IF signed /\ CharAt(t, 1) = "-" THEN 0 - m ELSE m, Len(frac))>>
       ELSE <<>>

Zero == Float(0, 0)

\* a cell whose cleaning raised
Raise == [k |-> "raise"]

\* the conversion without its try/except
clean_money_unguarded(x) ==
    IF IsNa(x) THEN Zero
    ELSE IF x.k \in {"int", "float"} THEN Float(x.m, x.e)
    ELSE LET x_str == Str(x)
         IN IF Strip(x_str) = "" \/ Lower(x_str) = "nan" THEN Zero
            ELSE IF PyFloat(StripNonNumeric(x_str)) = <<>> THEN Raise
            ELSE PyFloat(StripNonNumeric(x_str))[1]

\* clean_money_in, clean_money_out and clean_balance: the same body
clean_money(x) ==
    IF IsNa(x) THEN Zero
    ELSE IF x.k \in {"int", "float"} THEN Float(x.m, x.e)
    ELSE LET x_str == Str(x)
         IN IF Strip(x_str) = "" \/ Lower(x_str) = "nan" THEN Zero
            ELSE IF PyFloat(StripNonNumeric(x_str)) = <<>> THEN Zero
            ELSE PyFloat(StripNonNumeric(x_str))[1]

clean_money_in(x) == clean_money(x)
clean_money_out(x) == clean_money(x)
clean_balance(x) == clean_money(x)

CleanIn(x) == clean_money_in(ReplaceWithNaN(ReplaceWithNaN(x, ""), "nan"))
CleanOut(x) == clean_money_out(ReplaceWithNaN(ReplaceWithNaN(x, ""), "nan"))
CleanBalance(x) == clean_balance(ReplaceWithNaN(ReplaceWithNaN(x, ""), "nan"))

clean_money_columns(df) ==
    LET df1 == ApplyColumn(df, "Money In", [x \in Cells(df, "Money In") |-> CleanIn(x)])
        df2 == ApplyColumn(df1, "Money out", [x \in Cells(df1, "Money out") |-> CleanOut(x)])
    IN ApplyColumn(df2, "Balance", [x \in Cells(df2, "Balance") |-> CleanBalance(x)])

----------------------------------------------------------------------------
(* parse_dates: datetime.strptime on the formats of date_formats *)

NaT == [k |-> "nat"]
DateTime(Y, m, d, H, M, S) == [k |-> "dt", Y |-> Y, m |-> m, d |-> d, H |-> H, M |-> M, S |-> S]

\* the length of the run of digits at the start of s
RECURSIVE DigitRun(_)
DigitRun(s) ==
    IF s # "" /\ IsDigitChar(CharAt(s, 1)) THEN 1 + DigitRun(SubSeq(s, 2, Len(s))) ELSE 0

RECURSIVE SpaceRun(_)
SpaceRun(s) ==
    IF s # "" /\ IsSpace(CharAt(s, 1)) THEN 1 + SpaceRun(SubSeq(s, 2, Len(s))) ELSE 0

\* the digits a directive of _strptime's regular expressions accepts, as the number
\* of digits n and their value v
DirectiveAccepts(dir, n, v) ==
    CASE dir = "d" -> n \in {1, 2} /\ v >= 1 /\ v <= 31
      [] dir = "m" -> n \in {1, 2} /\ v >= 1 /\ v <= 12
      [] dir = "Y" -> n = 4
      [] dir = "y" -> n = 2
      [] dir = "H" -> n \in {1, 2} /\ v <= 23
      [] dir = "M" -> n \in {1, 2} /\ v <= 59
      [] dir = "S" -> n \in {1, 2} /\ v <= 61
      [] OTHER -> FALSE

\* the regular expression of fmt matched against the whole of s: <<>> when it does
\* not match or text remains, else <<fields>>.  Every directive of date_formats is
\* followed by a separator or ends the format, so it takes the whole run of digits.
RECURSIVE MatchFormat(_, _, _)
MatchFormat(fmt, s, fields) ==
    IF fmt = "" THEN (IF s = "" THEN <<fields>> ELSE <<>>)
    ELSE IF CharAt(fmt, 1) = "%"
    THEN LET dir == CharAt(fmt, 2)
             lead == IF dir = "d" /\ Len(s) >= 2 /\ CharAt(s, 1) = " " THEN 1 ELSE 0
             digits == SubSeq(s, lead + 1, Len(s))
             n == DigitRun(digits)
             v == DigitsToNat(SubSeq(digits, 1, n))
         IN IF /\ n > 0
               /\ DirectiveAccepts(dir, n, v)
               /\ lead = 1 => (n = 1 /\ v >= 1)
            THEN MatchFormat(SubSeq(fmt, 3, Len(fmt)), SubSeq(digits, n + 1, Len(digits)),
                             [fields EXCEPT ![dir] = v])
            ELSE <<>>
    ELSE IF CharAt(fmt, 1) = " "
    THEN IF SpaceRun(s) > 0
         THEN MatchFormat(SubSeq(fmt, 2, Len(fmt)), SubSeq(s, SpaceRun(s) + 1, Len(s)), fields)
         ELSE <<>>
    ELSE IF s # "" /\ CharAt(s, 1) = CharAt(fmt, 1)
    THEN MatchFormat(SubSeq(fmt, 2, Len(fmt)), SubSeq(s, 2, Len(s)), fields)
    ELSE <<>>

NoFields == [d |-> 1, m |-> 1, Y |-> 1900, y |-> 0 - 1, H |-> 0, M |-> 0, S |-> 0]

IsLeap(Y) == (Y % 4 = 0 /\ Y % 100 # 0) \/ Y % 400 = 0

DaysIn(Y, m) ==
    IF m = 2 THEN (IF IsLeap(Y) THEN 29 ELSE 28)
    ELSE IF m \in {4, 6, 9, 11} THEN 30 ELSE 31

\* datetime.strptime(date_str, fmt): <<>> for ValueError, else <<the datetime>>
Strptime(date_str, fmt) ==
    LET found == MatchFormat(fmt, date_str, NoFields)
    IN IF found = <<>> THEN <<>>
       ELSE LET f == found[1]
                Y == IF f.y < 0 THEN f.Y ELSE IF f.y <= 68 THEN 2000 + f.y ELSE 1900 + f.y
            IN IF Y >= 1 /\ f.d <= DaysIn(Y, f.m) /\ f.S <= 59
               THEN <<DateTime(Y, f.m, f.d, f.H, f.M, f.S)>>
               ELSE <<>>

\* the second format written with a four-digit year
date_formats_four_digit_year ==
    <<"%d/%m/%Y %H:%M", "%d/%m/%Y %H:%M:%S", "%d/%m/%Y %H:%M:%S", "%Y-%m-%d %H:%M:%S",
      "%d/%m/%y %H:%M", "%d-%m-%Y", "%d/%m/%Y", "%d/%m/%y">>

date_formats ==
    <<"%d/%m/%Y %H:%M", "%d/%m/%y %H:%M:%S", "%d/%m/%Y %H:%M:%S", "%Y-%m-%d %H:%M:%S",
      "%d/%m/%y %H:%M", "%d-%m-%Y", "%d/%m/%Y", "%d/%m/%y">>

\* for fmt in date_formats: try: ...; break / except ValueError: continue / else: NaT
RECURSIVE TryFormats(_, _)
TryFormats(date_str, formats) ==
    IF formats = <<>> THEN NaT
    ELSE IF Strptime(date_str, Head(formats)) # <<>> THEN Strptime(date_str, Head(formats))[1]
    ELSE TryFormats(date_str, Tail(formats))

\* pd.NA after the two replaces of the text column
NA == [k |-> "na"]

\* the cell after astype(str) and the replaces of 'nan' and ''
DateText(cell) ==
    LET t == Str(cell) IN IF t = "nan" \/ t = "" THEN NA ELSE Txt(t)

\* one turn of the loop over df['Date/Time']
ParseDateCell(cell) ==
    LET date_str == DateText(cell)
    IN IF date_str = NA \/ date_str = Txt("NaT") THEN NaT
       ELSE TryFormats(date_str.s, date_formats)

parse_dates(df) ==
    ApplyColumn(df, "Date/Time", [date_str \in Cells(df, "Date/Time") |-> ParseDateCell(date_str)])

----------------------------------------------------------------------------
(* filter_out_savings *)

\* fillna(''), astype(str), replace('nan', '')
DescriptionText(cell) ==
    LET t == IF IsNa(cell) THEN "" ELSE Str(cell) IN Txt(IF t = "nan" THEN "" ELSE t)

\* the test without .str.lower()
KeptCaseSensitive(cell) == ~Contains("savings", cell.s)

\* mask = ~df['Description'].str.lower().str.contains('savings', na=False)
Kept(cell) == ~Contains("savings", Lower(cell.s))

\* df[mask]: the rows and their labels where the mask holds
RECURSIVE Masked(_, _)
Masked(items, mask) ==
    IF items = <<>> THEN <<>>
    ELSE (IF Head(mask) THEN <<Head(items)>> ELSE <<>>) \o Masked(Tail(items), Tail(mask))

filter_out_savings(df) ==
    IF ~InList("Description", df.columns) THEN df
    ELSE LET texts == ApplyColumn(df, "Description",
                                 [x \in Cells(df, "Description") |-> DescriptionText(x)])
             q == ColumnOf(df, "Description")
             mask == [r \in 1..Len(texts.rows) |-> Kept(texts.rows[r][q])]
         IN [columns |-> texts.columns,
             index |-> Masked(texts.index, mask),
             rows |-> Masked(texts.rows, mask)]

----------------------------------------------------------------------------
(* The statements fed to the parser *)

GridWidth == 9
MaxShortRows == 2
LongRows == 20

RECURSIVE Pad(_)
Pad(cells) == IF Len(cells) >= GridWidth THEN cells ELSE Pad(Append(cells, NaN))

Blank == Pad(<<>>)
Title == Pad(<<Txt("Kuda MF Bank")>>)

\* header rows
HdrKuda ==
    Pad(<<NaN, NaN, Txt("Date/Time"), Txt("Money In"), Txt("Money out"), Txt("Category"),
          Txt("To / From"), Txt("Description"), Txt("Balance")>>)
HdrUpper ==
    Pad(<<NaN, NaN, Txt("DATE/TIME"), Txt("MONEY IN"), Txt("MONEY OUT"), Txt("CATEGORY"),
          Txt("TO / FROM"), Txt("DESCRIPTION"), Txt("BALANCE")>>)
HdrLonger ==
    Pad(<<NaN, NaN, Txt("Transaction Date/Time"), Txt("Money In"), Txt("Money out"),
          Txt("Category"), Txt("To / From"), Txt("Description"), Txt("Balance")>>)
HdrFull ==
    Pad(<<Txt("Date/Time"), Txt("Money In"), Txt("Money out"), Txt("Category"),
          Txt("To / From"), Txt("Description"), Txt("Balance")>>)
HdrSpaced ==
    Pad(<<Txt("date/time"), Txt(" Money In "), Txt("money out"), Txt("Category "),
          Txt(" To / From"), Txt("Description"), Txt(" Balance ")>>)
HdrClosing ==
    Pad(<<Txt("Date/Time"), Txt("Money In"), Txt("Money out"), Txt("Category"),
          Txt("To / From"), Txt("Description"), Txt("Balance"), Txt("Closing Balance")>>)
HdrTwice ==
    Pad(<<Txt("Date/Time"), Txt("Balance"), Txt("Description"), Txt("Balance")>>)
HdrBalances ==
    Pad(<<Txt("Date/Time"), Txt("Description"), Txt("Balance"), Txt("Closing Balance")>>)
HdrPartial ==
    Pad(<<Txt("Ref"), NaN, Txt("Date/Time"), Txt("Amount"), Txt("Description"), Txt("Balance")>>)
HdrSome ==
    Pad(<<Txt("Ref"), Txt("Date/Time"), Txt("Amount"), Txt("Description")>>)

\* rows the later scans accept or nearly accept
DateAndMoney == Pad(<<Txt("Statement Date"), Txt("Money In"), Txt("₦50,000.00")>>)
DateBalance == Pad(<<Txt("Date"), Txt("Balance")>>)
TimeBalance == Pad(<<Txt("Transaction Time"), Txt("Balance")>>)

\* rows of the block above the header
AccountNext == Pad(<<Txt("Account Number"), Txt("1100050449")>>)
AccountPlain == Pad(<<Txt("Account"), Txt("1100050449")>>)
AccountGap == Pad(<<Txt("Account"), NaN, Txt("1100050449")>>)
AccountColon == Pad(<<Txt("Account"), Txt(":"), Txt("1100050449")>>)
AccountBefore == Pad(<<Int_(1100050449), Txt("Account")>>)
AccountName == Pad(<<Txt("Account Name"), Txt("JOHN DOE")>>)
ClosingNaira == Pad(<<Txt("Closing Balance"), Txt("₦30,019.54")>>)
ClosingGap == Pad(<<Txt("Closing Balance"), NaN, Txt("30,019.54"), Txt("1")>>)
ClosingText == Pad(<<Txt("Closing Balance"), Txt("Pending")>>)
ClosingFar == Pad(<<Txt("Opening Balance"), Txt("as of"), NaN, Txt("25.00")>>)
Summary == Pad(<<Txt("Summary")>>)
MoneyIn == Pad(<<Txt("Money In"), Txt("₦50,000.00")>>)
MoneyOut == Pad(<<Txt("Money Out"), Txt("₦19,980.46")>>)

\* transaction rows: the cells under Date/Time .. Balance
DataRows ==
    << <<Txt("16/01/20 09:22:35"), Txt("₦1,000.00"), NaN, Txt("Transfer"),
         Txt("John"), Txt("Rent payment"), Txt("₦30,019.54")>>,
       <<Txt("10/1/2020 21:12"), NaN, Txt("₦500.00"), Txt("Savings"),
         Txt("Kuda"), Txt("Savings top-up"), Txt("₦29,519.54")>>,
       <<Txt("not a date"), Txt(""), Int_(0 - 50), NaN,
         NaN, Txt("SAVINGS withdrawal"), Float(2956954, 2)>>,
       <<NaN, Int_(200), Txt("nan"), Txt("Food"),
         Txt("Shop"), NaN, Txt("1.2.3")>> >>

Data(q) == DataRows[(q % Len(DataRows)) + 1]

\* under HdrKuda (columns 2..8) and under HdrFull (columns 0..6)
KudaData(i) == Pad(<<NaN, NaN>> \o Data(i))
FullData(i) == Pad(Data(i))

ShortRows ==
    {Title, HdrFull, HdrSpaced, HdrClosing, HdrTwice, HdrBalances, HdrSome, DateAndMoney,
     DateBalance, TimeBalance, AccountNext, ClosingNaira, FullData(0), FullData(2)}

RECURSIVE SeqsOf(_, _)
SeqsOf(S, n) ==
    IF n = 0 THEN {<<>>} ELSE {Append(g, r) : g \in SeqsOf(S, n - 1), r \in S}

ShortGrids == UNION {SeqsOf(ShortRows, n) : n \in 1..MaxShortRows}

\* the blocks placed above row 15 of a long statement
Blocks ==
    {<<>>, <<AccountNext>>, <<AccountGap>>, <<AccountColon>>, <<AccountBefore>>,
     <<AccountNext, AccountName>>, <<ClosingNaira>>, <<ClosingGap>>, <<ClosingText>>,
     <<ClosingFar>>, <<ClosingNaira, ClosingText>>,
     <<Summary, MoneyIn, MoneyOut>>,
     <<Summary, Blank, Blank, Blank, MoneyIn>>,
     <<Summary, Blank, Blank, Blank, Blank, MoneyOut>>,
     <<Summary>>,
     <<AccountGap, Summary, MoneyIn, MoneyOut>>,
     <<AccountColon, Summary, MoneyIn, MoneyOut>>,
     <<AccountPlain, Summary, MoneyIn, MoneyOut>>,
     <<AccountNext, ClosingNaira, Summary, MoneyIn, MoneyOut>>,
     <<HdrFull>>, <<DateAndMoney>>, <<DateBalance>>, <<TimeBalance>>, <<Title>>}

Row15s == {HdrKuda, HdrUpper, HdrLonger, HdrPartial, HdrFull, DateAndMoney, KudaData(0)}

Blanks(n) == [i \in 1..n |-> Blank]

\* block at row `at`, `row15` at row 15, transaction rows from row 16 on
LongGrid(block, at, row15) ==
    Blanks(at) \o block \o Blanks(RowFixed - at - Len(block)) \o <<row15>>
    \o [i \in 1..(LongRows - RowFixed - 1) |->
            IF row15 = HdrFull THEN FullData(i - 1) ELSE KudaData(i - 1)]

\* where a block is placed: at the top, or ending one or no row above row 15
Offsets(b) ==
    {at \in 0..RowFixed : at + Len(b) <= RowFixed /\ (at = 0 \/ at + Len(b) >= RowFixed - 1)}

LongGrids == UNION {{LongGrid(b, at, r) : at \in Offsets(b), r \in Row15s} : b \in Blocks}

Grids == ShortGrids \cup {<<>>} \cup LongGrids

Readable(g) == [openpyxl |-> <<>>, xlrd |-> <<>>, grid |-> g]

NotAZip == "File is not a zip file"
NotAnXls == "Unsupported format, or corrupt file"

\* files on which at least one engine fails
OddFiles ==
    {[openpyxl |-> a, xlrd |-> b, grid |-> g] :
        a \in {<<>>, <<NotAZip>>}, b \in {<<>>, <<NotAnXls>>},
        g \in {<<HdrFull, FullData(0)>>, <<Title>>}}

Files == {Readable(g) : g \in Grids} \cup OddFiles

NoFile == [openpyxl |-> <<>>, xlrd |-> <<>>, grid |-> <<>>]

----------------------------------------------------------------------------
(* The upload handling of app.py.  Streamlit runs the script once per      *)
(* upload, the runs of different sessions on threads of one process: the   *)
(* names of a run are its own, sys.stdout is shared.                       *)

Sessions == {"a", "b"}
MaxUploads == 1

Console == [stream |-> "console"]
\* the io.StringIO() of the run-th run of session h
DebugOutput(h, run) == [stream |-> "debug_output", session |-> h, run |-> run]

Idle ==
    [pc |-> "idle", run |-> 0, uploaded_file |-> NoFile, original_stdout |-> <<>>,
     outcome |-> <<>>, debug_text |-> <<>>, branch |-> "none"]

NoHandling == [h \in Sessions |-> Idle]

UploadedFiles ==
    {Readable(<<HdrFull, FullData(0), FullData(1)>>),
     Readable(<<Title, AccountNext>>),
     [openpyxl |-> <<NotAZip>>, xlrd |-> <<NotAnXls>>, grid |-> <<>>]}

InitUpload ==
    /\ upload = NoFile
    /\ header_row_idx = <<>>
    /\ column_indices = <<>>
    /\ df_final = NoTable
    /\ attrs = NoMetadata
    /\ raised = <<>>
    /\ calls = <<>>
    /\ statement = NoStatement /\ df_in = NoStatement /\ step = "none"
    /\ heap = <<>> /\ df_id = 0
    /\ handling = NoHandling
    /\ sys_stdout = Console
    /\ streams = {}

Me(h) == <<h, handling[h].run>>
At(h, label) == handling[h].pc = label
Goto(h, label) == [handling[h] EXCEPT !.pc = label]
Others == <<parser_vars, statement_vars>>

\* if uploaded_file is not None: a run of the script begins
Upload(h, file) ==
    /\ At(h, "idle") \/ At(h, "done")
    /\ handling[h].run < MaxUploads
    /\ handling' = [handling EXCEPT ![h] =
            [Idle EXCEPT !.pc = "save", !.run = handling[h].run + 1, !.uploaded_file = file]]
    /\ UNCHANGED <<sys_stdout, streams, Others>>

\* original_stdout = sys.stdout
SaveStdout(h) ==
    /\ At(h, "save")
    /\ handling' = [handling EXCEPT ![h] =
            [Goto(h, "redirect") EXCEPT !.original_stdout = <<sys_stdout>>]]
    /\ UNCHANGED <<sys_stdout, streams, Others>>

\* sys.stdout = debug_output
Redirect(h) ==
    /\ At(h, "redirect")
    /\ sys_stdout' = DebugOutput(h, handling[h].run)
    /\ handling' = [handling EXCEPT ![h] = Goto(h, "call")]
    /\ UNCHANGED <<streams, Others>>

\* process_kuda_excel begins: print("Reading Excel file...")
ParserBegins(h) ==
    /\ At(h, "call")
    /\ streams' = streams \cup {<<sys_stdout, Me(h)>>}
    /\ handling' = [handling EXCEPT ![h] = Goto(h, "parsing")]
    /\ UNCHANGED <<sys_stdout, Others>>

\* the rest of process_kuda_excel: its other prints, and its return or its raise
ParserEnds(h) ==
    /\ At(h, "parsing")
    /\ streams' = streams \cup {<<sys_stdout, Me(h)>>}
    /\ handling' = [handling EXCEPT ![h] =
            [Goto(h, "after") EXCEPT
                !.outcome = <<process_kuda_excel(handling[h].uploaded_file).raised>>]]
    /\ UNCHANGED <<sys_stdout, Others>>

\* the statement after the call, or the except clause the exception selects:
\* sys.stdout = original_stdout on return and in `except ValueError`, nothing of the
\* kind in `except Exception`
AfterParser(h) ==
    /\ At(h, "after")
    /\ LET e == handling[h].outcome[1]
       IN IF e = <<>> \/ e[1].type = "ValueError"
          THEN /\ sys_stdout' = handling[h].original_stdout[1]
               /\ handling' = [handling EXCEPT ![h] = Goto(h, "getvalue")]
          ELSE /\ sys_stdout' = sys_stdout
               /\ handling' = [handling EXCEPT ![h] =
                        [Goto(h, "done") EXCEPT !.branch = "except Exception"]]
    /\ UNCHANGED <<streams, Others>>

\* debug_text = debug_output.getvalue(), then the rest of the branch
GetValue(h) ==
    /\ At(h, "getvalue")
    /\ handling' = [handling EXCEPT ![h] =
            [Goto(h, "done") EXCEPT
                !.debug_text =
                    <<{p[2] : p \in {x \in streams : x[1] = DebugOutput(h, handling[h].run)}}>>,
                !.branch = IF handling[h].outcome[1] = <<>> THEN "process_bank_statement"
                           ELSE "except ValueError"]]
    /\ UNCHANGED <<sys_stdout, streams, Others>>

NextUpload ==
    \E h \in Sessions :
        \/ \E file \in UploadedFiles : Upload(h, file)
        \/ SaveStdout(h)
        \/ Redirect(h)
        \/ ParserBegins(h)
        \/ ParserEnds(h)
        \/ AfterParser(h)
        \/ GetValue(h)

SpecUpload == InitUpload /\ [][NextUpload]_vars

----------------------------------------------------------------------------
(* One call of the parser on one uploaded file *)

Init ==
    /\ upload \in Files
    /\ header_row_idx = <<>>
    /\ column_indices = <<>>
    /\ df_final = NoTable
    /\ attrs = NoMetadata
    /\ raised = <<>>
    /\ calls = <<>>
    /\ statement = NoStatement /\ df_in = NoStatement /\ step = "none"
    /\ heap = <<>> /\ df_id = 0
    /\ handling = NoHandling /\ sys_stdout = Console /\ streams = {}

ProcessKudaExcel ==
    /\ calls = <<>>
    /\ LET r == process_kuda_excel(upload)
       IN /\ header_row_idx' = r.header_row_idx
          /\ column_indices' = r.column_indices
          /\ df_final' = r.df_final
          /\ attrs' = r.attrs
          /\ raised' = r.raised
          /\ calls' = r.calls
    /\ UNCHANGED <<upload, statement_vars, upload_vars>>

Next == ProcessKudaExcel

Spec == Init /\ [][Next]_vars

----------------------------------------------------------------------------
(* process_bank_statement on one table: the three transforms in turn *)

MaxTableRows == 3
MaxStride == 3

\* rows of a statement: Date/Time, Money In, Money out, Category, To / From,
\* Description, Balance
StatementRows ==
    << <<Txt("16/01/20 09:22:35"), Txt("₦1,234.56"), NaN, Txt("Transfer"), Txt("John"),
         Txt("Savings top-up"), Txt("₦30,019.54")>>,
       <<Txt("10/1/2020 21:12"), Txt(""), Txt("₦500.00"), Txt("Bills"), Txt("Landlord"),
         Txt("Rent payment"), Float(2951954, 2)>>,
       <<Txt("not a date"), Txt("nan"), Txt("-75.50"), NaN, NaN,
         Txt("SAVINGS withdrawal"), Txt("1.2.3")>>,
       <<NaN, Int_(0 - 50), Int_(200), Txt("Food"), Txt("Shop"), NaN, NaN>>,
       <<Txt("16/01/2020 09:22:35"), Float(0 - 1250, 2), Txt("N/A"), Txt("Food"), Txt("Shop"),
         Txt("nan"), Txt(".")>>,
       <<Txt("2020-01-10 21:12:00"), Txt("12."), Txt(".5"), NaN, Txt("Kuda"),
         Txt("Transfer to my savingsbox"), Int_(0)>>,
       <<Txt("19/10/22 14:12"), Txt(" "), Txt("NaN"), Txt("Airtime"), NaN,
         Txt("Airtime"), Txt("₦-10")>>,
       <<Txt("15-01-2020"), Txt("₦1,000"), Txt("1e3"), Txt("Salary"), Txt("Acme"),
         Txt("Salary"), Txt("abc")>>,
       <<Txt("15/01/2020"), Txt("0.50"), Float(5, 1), Txt("Fees"), Txt("Kuda"),
         Int_(5), Int_(0 - 3)>>,
       <<Txt("15/01/20"), Txt("- 20"), Int_(0), Txt("Fees"), Txt("Kuda"),
         Txt("Saving"), Txt("7")>>,
       <<Txt("31/02/2020 10:00"), NaN, Txt("3"), NaN, NaN, Txt("savings"), Txt("8")>>,
       <<Txt(""), Txt("4"), Txt(""), NaN, NaN, Txt(""), Txt("")>>,
       <<Txt("nan"), Txt("nan"), Txt("5"), NaN, NaN, Txt("Lunch"), Txt("nan")>>,
       <<Txt("NaT"), Txt("6"), NaN, NaN, NaN, Txt("Bus"), Txt("9")>>,
       <<Txt("29/02/20"), Txt("7"), NaN, NaN, NaN, Txt("Tea"), Txt("10")>>,
       <<Txt("16/01/2020 09:22:35 "), Txt("8"), NaN, NaN, NaN, Txt("Cab"), Txt("11")>>,
       <<Txt(" 5/01/2020"), Txt("9"), NaN, NaN, NaN, Txt("Gym"), Txt("12")>>,
       <<Txt("16/01/99 09:22"), Txt("10"), NaN, NaN, NaN, Txt("Book"), Txt("13")>>,
       <<Txt("32/01/2020"), Txt("11"), NaN, NaN, NaN, Txt("Pen"), Txt("14")>>,
       <<Txt("16/01/20 09:22:60"), Txt("12"), NaN, NaN, NaN, Txt("Ink"), Txt("15")>> >>

\* n rows of StatementRows from row `from` on, every stride-th row
Window(from, stride, n) ==
    [columns |-> required_columns_list,
     index |-> [i \in 1..n |-> i - 1],
     rows |-> [i \in 1..n |->
                 StatementRows[((from - 1 + (i - 1) * stride) % Len(StatementRows)) + 1]]]

Statements ==
    {Window(from, stride, n) :
        from \in 1..Len(StatementRows), stride \in 1..MaxStride, n \in 0..MaxTableRows}

InitStatement ==
    /\ upload = NoFile
    /\ header_row_idx = <<>>
    /\ column_indices = <<>>
    /\ df_final = NoTable
    /\ attrs = NoMetadata
    /\ raised = <<>>
    /\ calls = <<>>
    /\ statement \in Statements
    /\ df_in = NoStatement
    /\ heap = <<statement>> /\ df_id = 1
    /\ step = "start"
    /\ handling = NoHandling /\ sys_stdout = Console /\ streams = {}

Raises(t) == \E r \in 1..Len(t.rows) : \E q \in 1..Len(t.rows[r]) : t.rows[r][q] = Raise

\* a transform without df.copy(): it assigns the columns of the object it was given
ReturnsArgument(objects, id, out) == [heap |-> [objects EXCEPT ![id] = out], id |-> id]

\* df = df.copy() ... return df: the transform writes `out` into a new object
\* and returns it; the objects that exist are left as they are
Returns(objects, id, out) == [heap |-> Append(objects, out), id |-> Len(objects) + 1]

Transform(from, to, out) ==
    /\ step = from
    /\ df_in' = statement
    /\ IF Raises(out)
       THEN /\ raised' = <<ValueError("could not convert string to float")>>
            /\ statement' = statement
            /\ heap' = heap /\ df_id' = df_id
            /\ step' = "raised"
       ELSE /\ raised' = raised
            /\ statement' = Returns(heap, df_id, out).heap[Returns(heap, df_id, out).id]
            /\ heap' = Returns(heap, df_id, out).heap
            /\ df_id' = Returns(heap, df_id, out).id
            /\ step' = to
    /\ UNCHANGED <<upload, header_row_idx, column_indices, df_final, attrs, calls, upload_vars>>

\* df = clean_money_columns(df)
CleanMoneyColumns == Transform("start", "cleaned", clean_money_columns(statement))

\* df = parse_dates(df)
ParseDates == Transform("cleaned", "dated", parse_dates(statement))

\* df = filter_out_savings(df)
FilterOutSavings == Transform("dated", "filtered", filter_out_savings(statement))

NextStatement == CleanMoneyColumns \/ ParseDates \/ FilterOutSavings

SpecStatement == InitStatement /\ [][NextStatement]_vars

----------------------------------------------------------------------------
(* Claims about the parser *)

Returned == calls # <<>> /\ raised = <<>>
Grid == upload.grid
WasRead == upload.openpyxl = <<>> \/ upload.xlrd = <<>>

\* the text of a cell is, whatever its letter case, the given lowercase text
CellIs(cell, text) == cell.k = "str" /\ Lower(cell.s) = text
CellHas(cell, text) == cell.k = "str" /\ Contains(text, Lower(cell.s))
RowHasCell(row, text) == \E j \in 1..Len(row) : CellIs(row[j], text)

\* row 15 exists and its cell at column 2 is "date/time"
Row15IsHeader(g) == Len(g) >= 16 /\ Len(g[16]) >= 3 /\ CellIs(g[16][3], "date/time")

\* C1: a grid whose row 15 has "date/time" (in any letter case) at column 2 has
\* header index 15, whatever its other rows hold.
C1_PositionalHeaderWins ==
    (calls # <<>> /\ WasRead /\ Row15IsHeader(Grid)) => (raised = <<>> /\ header_row_idx = <<15>>)

\* row 15 is the header although an earlier row has an exact "date/time" cell, and
\* although an earlier row has a date cell and a money cell
C1_Witness ==
    /\ Returned /\ Row15IsHeader(Grid) /\ header_row_idx = <<15>>
    /\ \E i \in 1..15 : RowHasCell(Grid[i], "date/time")

C1_WitnessAlternative ==
    /\ Returned /\ Row15IsHeader(Grid) /\ header_row_idx = <<15>>
    /\ \E i \in 1..15 : /\ \E j \in 1..Len(Grid[i]) : CellHas(Grid[i][j], "date")
                        /\ \E j \in 1..Len(Grid[i]) : CellHas(Grid[i][j], "money")

ExactRows(g) == {i \in 0..(Len(g) - 1) : RowHasCell(g[i + 1], "date/time")}

\* C2: a grid with no row 15 and exactly one row with a cell equal to "date/time" has
\* that row as its header, even below a row that has a date cell and a money cell.
C2_ExactRowWins ==
    (calls # <<>> /\ WasRead /\ Len(Grid) <= 15 /\ Cardinality(ExactRows(Grid)) = 1)
        => header_row_idx = <<CHOOSE i \in ExactRows(Grid) : TRUE>>

\* the cells above row 15 that mention "account", as <<row, column>> from 1
AccountCells(g) ==
    {p \in (1..15) \X (1..GridWidth) : p[2] <= Len(g[p[1]]) /\ CellHas(g[p[1]][p[2]], "account")}

SummaryBlock(g) ==
    \E i \in 1..13 : /\ RowHasCell(g[i], "summary")
                     /\ \E j \in 1..Len(g[i + 1]) : CellHas(g[i + 1][j], "money in")
                     /\ \E j \in 1..Len(g[i + 2]) : CellHas(g[i + 2][j], "money out")

\* 20 rows, header at row 15, a summary block and one "Account" cell above it
ExampleStatement(g) ==
    /\ Len(g) = 20 /\ Row15IsHeader(g) /\ SummaryBlock(g)
    /\ Cardinality(AccountCells(g)) = 1

AccountCell(g) == CHOOSE p \in AccountCells(g) : TRUE

\* the cell n places after the "Account" cell
AfterAccount(g, n) ==
    LET p == AccountCell(g)
    IN IF p[2] + n <= Len(g[p[1]]) THEN g[p[1]][p[2] + n] ELSE NaN

\* C5 as stated: with the account number two cells after "Account", the example
\* statement gives 4 transaction rows and accountNumber "1100050449".
C5_AccountTwoCellsLater ==
    (calls # <<>> /\ WasRead /\ ExampleStatement(Grid)
        /\ AfterAccount(Grid, 2) = Txt("1100050449"))
    => /\ Returned
       /\ Len(df_final.rows) = 4
       /\ attrs.account_number = <<"1100050449">>

\* C5 amended: the example statement gives 4 transaction rows; accountNumber is
\* "1100050449" when that value is in the cell right after "Account"; when it is two
\* cells after, accountNumber is the text of the cell in between, and is absent when
\* that cell is empty and "Account" is the first cell of its row.
C5_AccountNextCell ==
    (calls # <<>> /\ WasRead /\ ExampleStatement(Grid))
    => /\ Returned
       /\ Len(df_final.rows) = 4
       /\ AfterAccount(Grid, 1) = Txt("1100050449")
            => attrs.account_number = <<"1100050449">>
       /\ (AfterAccount(Grid, 2) = Txt("1100050449") /\ AfterAccount(Grid, 1).k = "str")
            => attrs.account_number = <<AfterAccount(Grid, 1).s>>
       /\ (AfterAccount(Grid, 2) = Txt("1100050449") /\ AfterAccount(Grid, 1) = NaN
              /\ AccountCell(Grid)[2] = 1)
            => attrs.account_number = <<>>

C5_Witness ==
    /\ Returned /\ ExampleStatement(Grid)
    /\ AfterAccount(Grid, 1) = Txt("1100050449")
    /\ Len(df_final.rows) = 4
    /\ attrs.account_number = <<"1100050449">>
    /\ attrs.summary_in # <<>>

\* the text starts with "column_"
IsPlaceholder(name) == Len(name) >= 7 /\ SubSeq(name, 1, 7) = "column_"

\* C6: a returned table has the seven canonical columns once each, in order; its rows
\* are the grid rows after the header row, in order; a canonical column the header map
\* lacks is null in every row; a mapped one holds the grid's cells of its column.
C6_CanonicalTable ==
    Returned =>
        LET h == header_row_idx[1]
            canon == <<"Date/Time", "Money In", "Money out", "Category", "To / From",
                       "Description", "Balance">>
        IN /\ df_final.columns = canon
           /\ \A q \in 1..Len(df_final.columns) : ~IsPlaceholder(df_final.columns[q])
           /\ Len(df_final.rows) = Len(Grid) - h - 1
           /\ \A r \in 1..Len(df_final.rows) :
                /\ Len(df_final.rows[r]) = 7
                /\ \A q \in 1..7 :
                     df_final.rows[r][q] =
                        IF DictHas(column_indices, canon[q])
                        THEN Grid[h + 1 + r][DictGet(column_indices, canon[q]) + 1]
                        ELSE NaN

\* a table of several rows whose header row lacked canonical columns and had cells
\* that got placeholder names
C6_Witness ==
    /\ Returned
    /\ Len(df_final.rows) >= 2
    /\ ~DictHas(column_indices, "Money In")
    /\ DictHas(column_indices, "Balance")
    /\ \E j \in 1..GridWidth :
          /\ NotNa(Grid[header_row_idx[1] + 1][j])
          /\ \A q \in 1..Len(column_indices) : column_indices[q][2] # j - 1
    /\ \E r \in 1..Len(df_final.rows) : df_final.rows[r][7] # NaN

----------------------------------------------------------------------------
(* Claims about the transforms.  The columns of a statement row, from 1:   *)
(* Date/Time, Money In, Money out, Category, To / From, Description,       *)
(* Balance.                                                                *)

InRows == df_in.rows
OutRows == statement.rows

IsNumber(cell) == cell.k \in {"int", "float"}

\* C7: after clean_money_columns every Money In and Money out value is a number that
\* is not negative, whatever the cell was (absent, empty, text, or a number of any sign).
C7_MoneyNeverNegative ==
    step = "cleaned" =>
        \A r \in 1..Len(OutRows) : \A q \in {2, 3} :
            IsNumber(OutRows[r][q]) /\ OutRows[r][q].m >= 0

\* the digits and points of s, in order (built from the right)
RECURSIVE DigitsAndPoints(_)
DigitsAndPoints(s) ==
    IF s = "" THEN ""
    ELSE LET c == CharAt(s, Len(s))
         IN DigitsAndPoints(SubSeq(s, 1, Len(s) - 1))
            \o (IF c \in {"0", "1", "2", "3", "4", "5", "6", "7", "8", "9", "."} THEN c ELSE "")

\* the number a text of digits and points denotes, 0 when it denotes none
NumberOf(kept) ==
    LET points == {i \in 1..Len(kept) : CharAt(kept, i) = "."}
    IN IF Cardinality(points) > 1 \/ Len(kept) = Cardinality(points) THEN Zero
       ELSE IF points = {} THEN Float(DigitsToNat(kept), 0)
       ELSE LET i == CHOOSE i \in points : TRUE
            IN Float(DigitsToNat(RemoveChar(kept, ".")), Len(kept) - i)

\* C8: clean_money_columns never raises; in Money In, Money out and Balance an absent
\* cell, "" and "nan" give 0, a text gives the number left after deleting every
\* character but digits and points ("₦1,234.56" gives 1234.56) and 0 when that is no
\* number; every cell is converted on its own and nothing else of the table changes.
C8_MoneyCells ==
    /\ step # "raised"
    /\ step = "cleaned" =>
        /\ raised = <<>>
        /\ Len(OutRows) = Len(InRows)
        /\ statement.index = df_in.index
        /\ statement.columns = df_in.columns
        /\ \A r \in 1..Len(InRows) :
            /\ \A q \in {1, 4, 5, 6} : OutRows[r][q] = InRows[r][q]
            /\ \A q \in {2, 3, 7} :
                LET x == InRows[r][q]
                    y == OutRows[r][q]
                IN /\ x \in {NaN, Txt(""), Txt("nan")} => y = Zero
                   /\ x.k = "str" => y = NumberOf(DigitsAndPoints(x.s))
                   /\ x = Txt("₦1,234.56") => y = Float(123456, 2)
                   /\ x \in {Txt("1.2.3"), Txt("N/A"), Txt(".")} => y = Zero

C8_Witness ==
    /\ step = "cleaned" /\ raised = <<>>
    /\ \E r \in 1..Len(InRows) : InRows[r][2] = Txt("₦1,234.56") /\ OutRows[r][2] = Float(123456, 2)
    /\ \E r \in 1..Len(InRows) : InRows[r][7] = Txt("1.2.3") /\ OutRows[r][7] = Zero
    /\ \E r \in 1..Len(InRows) : InRows[r][3] = NaN /\ OutRows[r][3] = Zero

\* the result of the first format of date_formats that parses the whole text
FirstFormat(text) ==
    LET ok == {i \in 1..Len(date_formats) : Strptime(text, date_formats[i]) # <<>>}
    IN IF ok = {} THEN NaT
       ELSE Strptime(text, date_formats[CHOOSE i \in ok : \A j \in ok : i <= j])[1]

\* C9: parse_dates never raises and gives one result per row, in order: the parse by
\* the first format that accepts the whole text ("16/01/20 09:22:35" under
\* day/month/two-digit year/seconds), null for an absent, empty or "nan" cell and for a
\* text no format accepts ("not a date").
C9_DateCells ==
    step = "dated" =>
        /\ raised = <<>>
        /\ Len(OutRows) = Len(InRows)
        /\ statement.index = df_in.index
        /\ \A r \in 1..Len(InRows) :
            LET x == InRows[r][1]
                y == OutRows[r][1]
            IN /\ \A q \in 2..7 : OutRows[r][q] = InRows[r][q]
               /\ x \in {NaN, Txt(""), Txt("nan"), Txt("not a date")} => y = NaT
               /\ x.k = "str" /\ x.s \notin {"", "nan"} => y = FirstFormat(x.s)
               /\ x = Txt("16/01/20 09:22:35") => y = DateTime(2020, 1, 16, 9, 22, 35)
               /\ x = Txt("10/1/2020 21:12") => y = DateTime(2020, 1, 10, 21, 12, 0)
               /\ x = Txt("2020-01-10 21:12:00") => y = DateTime(2020, 1, 10, 21, 12, 0)
               /\ x = Txt("16/01/99 09:22") => y = DateTime(1999, 1, 16, 9, 22, 0)
               /\ x = Txt("15-01-2020") => y = DateTime(2020, 1, 15, 0, 0, 0)
               /\ x = Txt("31/02/2020 10:00") => y = NaT

C9_Witness ==
    /\ step = "dated" /\ raised = <<>>
    /\ \E r \in 1..Len(InRows) :
          InRows[r][1] = Txt("16/01/20 09:22:35") /\ OutRows[r][1] = DateTime(2020, 1, 16, 9, 22, 35)
    /\ \E r \in 1..Len(InRows) : InRows[r][1] = Txt("not a date") /\ OutRows[r][1] = NaT

HasSavings(cell) == cell.k = "str" /\ Contains("savings", Lower(cell.s))

\* the labels of the rows of the table whose Description has no "savings"
RECURSIVE KeptLabels(_, _)
KeptLabels(table, r) ==
    IF r > Len(table.rows) THEN <<>>
    ELSE (IF HasSavings(table.rows[r][6]) THEN <<>> ELSE <<table.index[r]>>)
         \o KeptLabels(table, r + 1)

Descriptions(rows) == [r \in 1..Len(rows) |-> rows[r][6]]

\* C10: filter_out_savings returns the rows whose Description does not contain
\* "savings" in any letter case, in their order, rows without a Description among them;
\* of "Savings top-up", "Rent payment", "SAVINGS withdrawal" only "Rent payment" stays.
C10_SavingsFiltered ==
    step = "filtered" =>
        /\ raised = <<>>
        /\ statement.index = KeptLabels(df_in, 1)
        /\ \A p \in 1..Len(OutRows) :
            LET r == statement.index[p] + 1
            IN /\ \A q \in {1, 2, 3, 4, 5, 7} : OutRows[p][q] = InRows[r][q]
               /\ OutRows[p][6] = IF InRows[r][6] \in {NaN, Txt("nan")} THEN Txt("")
                                  ELSE Txt(Str(InRows[r][6]))
        /\ Descriptions(InRows)
              = <<Txt("Savings top-up"), Txt("Rent payment"), Txt("SAVINGS withdrawal")>>
            => Descriptions(OutRows) = <<Txt("Rent payment")>>

C10_Witness ==
    /\ step = "filtered"
    /\ Descriptions(InRows)
          = <<Txt("Savings top-up"), Txt("Rent payment"), Txt("SAVINGS withdrawal")>>
    /\ Descriptions(OutRows) = <<Txt("Rent payment")>>

\* a row without a Description is kept
C10_WitnessNull ==
    /\ step = "filtered"
    /\ \E r \in 1..Len(InRows) : InRows[r][6] = NaN /\ InList(df_in.index[r], statement.index)
    /\ Len(OutRows) < Len(InRows)

----------------------------------------------------------------------------
(* Claims about the upload handling *)

Done(h) == handling[h].pc = "done"
Outcome(h) == handling[h].outcome[1]

\* the parser of this run found no header row
HeaderWasNotFound(h) ==
    /\ Done(h)
    /\ Outcome(h) # <<>>
    /\ Contains("Could not find the transaction data header", Outcome(h)[1].msg)

\* C3: when the parser finds no header row, the upload handling enters the branch that
\* falls back to the generic spreadsheet read and the check of the expected columns.
C3_FallbackEntered ==
    \A h \in Sessions : HeaderWasNotFound(h) => handling[h].branch = "except ValueError"

\* C4: two concurrent upload handlings share nothing: each one's debug text holds only
\* the output of its own parse, and when both are finished sys.stdout is the stream
\* that was there before either began.  Stated for two first uploads whose parses both
\* return, so that no failure path is involved.
C4_HandlingsIsolated ==
    (\A h \in Sessions : Done(h) /\ handling[h].run = 1 /\ Outcome(h) = <<>>)
    => /\ sys_stdout = Console
       /\ \A h \in Sessions : handling[h].debug_text = <<{<<h, 1>>}>>

----------------------------------------------------------------------------
\* C11: clean_money_columns, parse_dates and filter_out_savings each leave the
\* table they are given as it was and return a separate table, so the table
\* the parser returned (the first object) is never changed by
\* process_bank_statement.
C11_TransformsLeaveInput ==
    [][/\ \A i \in 1..Len(heap) : i <= Len(heap') /\ heap'[i] = heap[i]
       /\ step' \in {"cleaned", "dated", "filtered"} =>
            /\ df_id' \notin 1..Len(heap)
            /\ heap'[df_id'] = statement'
            /\ heap'[df_id] = df_in']_vars

\* the three transforms ran, each changed the table, and the first object is
\* still the table with its text cells and all its rows
C11_Witness ==
    /\ step = "filtered"
    /\ Len(heap) = 4 /\ df_id = 4
    /\ heap[2] # heap[1] /\ heap[3] # heap[2] /\ heap[4] # heap[3]
    /\ Len(heap[4].rows) < Len(heap[1].rows)
    /\ \E r \in 1..Len(heap[1].rows) : heap[1].rows[r][2] = Txt("₦1,234.56")

----------------------------------------------------------------------------
PrimaryFailed == upload.openpyxl # <<>>
BothFailed == upload.openpyxl # <<>> /\ upload.xlrd # <<>>
Unreadable(e) == Contains("Failed to read Excel file with both engines", e.msg)

\* C12: the primary reader is tried first and the alternate reader only when
\* the primary one failed; the parse goes on with the grid that was read; the
\* unreadable-file error is raised exactly when both readers failed, carries
\* the primary reader's error, and then nothing is searched, mapped or
\* extracted.
C12_ReadersInOrder ==
    calls # <<>> =>
        /\ calls[1] = "openpyxl"
        /\ InList("xlrd", calls) <=> PrimaryFailed
        /\ InList("xlrd", calls) => calls[2] = "xlrd"
        /\ (raised # <<>> /\ Unreadable(raised[1])) <=> BothFailed
        /\ BothFailed =>
            /\ Contains("Original error: " \o upload.openpyxl[1], raised[1].msg)
            /\ ~Contains(upload.xlrd[1], raised[1].msg)
            /\ calls = <<"openpyxl", "xlrd">>
            /\ header_row_idx = <<>> /\ column_indices = <<>>
            /\ attrs = NoMetadata /\ df_final = NoTable
        /\ ~BothFailed =>
            /\ InList("locate", calls)
            /\ header_row_idx = LocateHeader(Grid)
            /\ header_row_idx # <<>> =>
                 df_final = BuildTable(Grid, header_row_idx[1], column_indices)

\* both readers failed and the unreadable-file error left the parser
C12_Witness ==
    /\ calls # <<>>
    /\ BothFailed
    /\ raised # <<>> /\ Unreadable(raised[1])

\* the primary reader failed, the alternate one read the grid and the parse went on
C12_WitnessAlternate ==
    /\ calls # <<>>
    /\ PrimaryFailed /\ ~BothFailed
    /\ Returned /\ Len(df_final.rows) = 1

----------------------------------------------------------------------------
\* no cell of the grid has the text in it, in any letter case
NoCellHas(g, text) ==
    \A i \in 1..Len(g) : \A j \in 1..Len(g[i]) : ~Contains(text, Lower(Str(g[i][j])))

NoKeywords(g) == NoCellHas(g, "date") /\ NoCellHas(g, "time") /\ NoCellHas(g, "money")

HeaderNotFoundRaised ==
    /\ raised # <<>>
    /\ Contains("Could not find the transaction data header", raised[1].msg)

\* C13: on a grid no cell of which contains "date", "time" or "money", the
\* parser fails with the header-not-found error and yields no table and no
\* metadata.
C13_NoKeywordsNoHeader ==
    (calls # <<>> /\ WasRead /\ NoKeywords(Grid)) =>
        /\ HeaderNotFoundRaised
        /\ header_row_idx = <<>>
        /\ df_final = NoTable
        /\ attrs = NoMetadata

\* such a grid, with account and balance rows in it, was parsed
C13_Witness ==
    /\ calls # <<>> /\ WasRead /\ NoKeywords(Grid)
    /\ Len(Grid) >= 2
    /\ \E i \in 1..Len(Grid) : \E j \in 1..Len(Grid[i]) : CellHas(Grid[i][j], "balance")
    /\ HeaderNotFoundRaised

----------------------------------------------------------------------------
LowerSet == {CharAt(LowerChars, i) : i \in 1..Len(LowerChars)}
ToUpper == [c \in LowerSet |-> CharAt(UpperChars, IndexIn(c, LowerChars))]

RECURSIVE Upper(_)
Upper(s) ==
    IF s = "" THEN ""
    ELSE (IF CharAt(s, 1) \in LowerSet THEN ToUpper[CharAt(s, 1)] ELSE CharAt(s, 1))
         \o Upper(SubSeq(s, 2, Len(s)))

\* the same header text in another letter case or with blanks around it
Rewritten(text, how) ==
    CASE how = "lower" -> Lower(text)
      [] how = "upper" -> Upper(text)
      [] how = "spaced" -> " " \o text \o " "
      [] how = "tabbed" -> "\t" \o Upper(text) \o " \n"

Ways == {"lower", "upper", "spaced", "tabbed"}

\* the header row with the text of cell j rewritten (j = 0: of every cell)
RewrittenRow(row, j, how) ==
    [q \in 1..Len(row) |->
        IF row[q].k = "str" /\ (j = 0 \/ q = j) THEN Txt(Rewritten(row[q].s, how)) ELSE row[q]]

HeaderRow == RowAt(Grid, header_row_idx[1])

\* no other cell of the row has the text in it
OnlyCell(row, j, text) ==
    \A q \in 1..Len(row) : q # j => ~Contains(text, Lower(Str(row[q])))

\* C14: the column mapper gives the same map whatever the letter case of the
\* header cells and the blanks around them; a cell that is, trimmed and
\* lowercased, a synonym which no other cell of the row contains is mapped to
\* its canonical name at its own index in every such writing.
C14_CaseAndBlanksIgnored ==
    Returned =>
        /\ column_indices = MapColumns(HeaderRow)
        /\ \A how \in Ways : \A j \in 0..Len(HeaderRow) :
              MapColumns(RewrittenRow(HeaderRow, j, how)) = column_indices
        /\ \A j \in 1..Len(HeaderRow) : \A q \in 1..Len(required_columns) :
              (cell_str(HeaderRow[j]) = required_columns[q][1]
               /\ OnlyCell(HeaderRow, j, required_columns[q][1])) =>
                  \A how \in Ways :
                     LET d == MapColumns(RewrittenRow(HeaderRow, j, how))
                     IN DictHas(d, required_columns[q][2])
                        /\ DictGet(d, required_columns[q][2]) = j - 1

\* the header in capitals at row 15 was mapped as the header in mixed case is
C14_Witness ==
    /\ Returned
    /\ HeaderRow = HdrUpper
    /\ column_indices = MapColumns(HdrKuda)
    /\ column_indices =
          << <<"Date/Time", 2>>, <<"Money In", 3>>, <<"Money out", 4>>, <<"Category", 5>>,
             <<"To / From", 6>>, <<"Description", 7>>, <<"Balance", 8>> >>

----------------------------------------------------------------------------
\* what the scans after the check of cell C16 decide
LaterStages(g) ==
    IF FirstRow(GeneralRows(g)) # <<>> THEN FirstRow(GeneralRows(g))
    ELSE FirstRow(PartialRows(g))

\* C15: the check of cell C16 accepts row 15 only when the cell at column 2
\* is equal, in any letter case, to "date/time"; when it is not, the later
\* scans decide the header index.
C15_PositionalNeedsEquality ==
    (calls # <<>> /\ WasRead /\ ~Row15IsHeader(Grid)) => header_row_idx = LaterStages(Grid)

----------------------------------------------------------------------------
\* a row whose joined lowercase text has "date" or "time" in it, and "money"
\* or "balance"
LooseRow(row) ==
    LET joined == Join(row_values(row))
    IN /\ Contains("date", joined) \/ Contains("time", joined) \/ Contains("date/time", joined)
       /\ Contains("money", joined) \/ Contains("balance", joined)

LooseRows(g) == {i \in 0..(Len(g) - 1) : LooseRow(RowAt(g, i))}

\* C16: when the check of cell C16 and the general search find nothing, the
\* first row whose joined lowercase text contains "date", "time" or "date/time"
\* and also "money" or "balance" is the header row.
C16_LooseStageSubstring ==
    (calls # <<>> /\ WasRead /\ ~PositionalHit(Grid) /\ GeneralRows(Grid) = {}) =>
        header_row_idx = FirstRow(LooseRows(Grid))

----------------------------------------------------------------------------
Least(S) == CHOOSE i \in S : \A j \in S : i <= j

\* the indices (from 0) of the header cells that are, trimmed and lowercased,
\* the synonym
ExactCells(row, synonym) == {j \in 0..(Len(row) - 1) : cell_str(CellAt(row, j)) = synonym}

\* C17: in the first pass, a canonical name whose synonym is the text of two
\* or more header cells is mapped to the index of the first of them.
C17_FirstExactCellWins ==
    Returned =>
        \A q \in 1..Len(required_columns) :
            LET js == ExactCells(HeaderRow, required_columns[q][1])
                first == ExactPass(HeaderRow, 0, <<>>)
            IN js # {} =>
                /\ DictHas(first, required_columns[q][2])
                /\ DictGet(first, required_columns[q][2]) = Least(js)

----------------------------------------------------------------------------
\* C18: the second pass runs only when the first pass mapped fewer than seven
\* names, and every entry the first pass recorded is in the final map with the
\* same index.
C18_FlexibleKeepsExact ==
    Returned =>
        LET first == ExactPass(HeaderRow, 0, <<>>)
        IN /\ Len(first) = Len(required_columns) => column_indices = first
           /\ \A q \in 1..Len(first) :
                /\ DictHas(column_indices, first[q][1])
                /\ DictGet(column_indices, first[q][1]) = first[q][2]

----------------------------------------------------------------------------
\* the rows strictly above the header row
RowsAbove == SubSeq(Grid, 1, header_row_idx[1])

\* the value is the text of a cell above the header row
TextAbove(value) ==
    \E i \in 1..Len(RowsAbove) : \E j \in 1..Len(RowsAbove[i]) :
        NotNa(RowsAbove[i][j]) /\ Str(RowsAbove[i][j]) = value[1]

\* a row above the header row has the word in its text
Triggered(word) == \E i \in 1..Len(RowsAbove) : Contains(word, row_text(RowsAbove[i]))

Fields == {"account_number", "closing_balance", "summary_in", "summary_out"}

\* C19: every metadata value is the text of a cell in a row strictly above the
\* header row, the summary look-ahead included: the metadata is what the rows
\* above the header alone give.  A field whose trigger text is in no row above
\* the header is absent, and with the header at row 0 all four are absent.
C19_MetadataFromAbove ==
    Returned =>
        /\ \A f \in Fields : attrs[f] # <<>> => TextAbove(attrs[f])
        /\ attrs = ExtractMetadata(RowsAbove, 0, Len(RowsAbove), NoMetadata)
        /\ ~Triggered("account") => attrs.account_number = <<>>
        /\ ~(Triggered("balance") \/ Triggered("closing")) => attrs.closing_balance = <<>>
        /\ ~(Triggered("summary") /\ Triggered("money in")) => attrs.summary_in = <<>>
        /\ ~(Triggered("summary") /\ Triggered("money out")) => attrs.summary_out = <<>>
        /\ header_row_idx = <<0>> => attrs = NoMetadata

\* the summary block ends right above the header at row 15: its look-ahead is
\* cut by the header row
C19_Witness ==
    /\ Returned
    /\ header_row_idx = <<RowFixed>>
    /\ RowAt(Grid, RowFixed - 3) = Summary
    /\ attrs.summary_in = <<"₦50,000.00">>
    /\ attrs.summary_out = <<"₦19,980.46">>

\* "Summary" is the row right above a header row that has "Money In" in it
C19_WitnessHeaderNotRead ==
    /\ Returned
    /\ header_row_idx = <<RowFixed>>
    /\ RowAt(Grid, RowFixed - 1) = Summary
    /\ RowAt(Grid, RowFixed) = HdrKuda
    /\ attrs = NoMetadata

----------------------------------------------------------------------------
\* the text has a currency symbol in it, or is all digits once "," and "." are removed
LooksMonetary(text) ==
    \/ Contains("₦", text)
    \/ IsDigit(RemoveChar(RemoveChar(text, ","), "."))

\* cell k of the row is the first monetary cell among the two cells after cell j
FirstMonetaryAfter(row, j, k) ==
    /\ k \in (j + 1)..(j + 2) /\ k <= Len(row)
    /\ NotNa(row[k]) /\ LooksMonetary(Str(row[k]))
    /\ \A l \in (j + 1)..(k - 1) : ~(NotNa(row[l]) /\ LooksMonetary(Str(row[l])))

\* C20: a closing balance that is present is the text of the first cell that
\* looks like a monetary value among the two cells after a cell containing
\* "balance" or "closing", in a row above the header row.
C20_ClosingBalanceMonetary ==
    (Returned /\ attrs.closing_balance # <<>>) =>
        \E i \in 1..Len(RowsAbove) : \E j \in 1..Len(RowsAbove[i]) :
            /\ Mentions(RowsAbove[i][j], "balance") \/ Mentions(RowsAbove[i][j], "closing")
            /\ \E k \in 1..Len(RowsAbove[i]) :
                /\ FirstMonetaryAfter(RowsAbove[i], j, k)
                /\ attrs.closing_balance = <<Str(RowsAbove[i][k])>>

----------------------------------------------------------------------------
\* the handling of session h is the only one there has been
Alone(h) == \A g \in Sessions \ {h} : handling[g] = Idle

\* C21: when the handling of an upload has finished, however its parse ended,
\* sys.stdout is again the stream it was before the handling began.  Stated
\* for a handling no other handling ran beside.
C21_StdoutRestored ==
    \A h \in Sessions :
        (Done(h) /\ Alone(h)) =>
            /\ handling[h].original_stdout = <<Console>>
            /\ sys_stdout = Console

----------------------------------------------------------------------------
\* what a row by itself yields as account number and as closing balance
AccountOfRow(row) ==
    IF Contains("account", row_text(row)) THEN AccountFrom(row, 0, <<>>) ELSE <<>>
BalanceOfRow(row) ==
    IF Contains("balance", row_text(row)) \/ Contains("closing", row_text(row))
    THEN BalanceFrom(row, 0, <<>>)
    ELSE <<>>

AccountRows == {i \in 1..Len(RowsAbove) : AccountOfRow(RowsAbove[i]) # <<>>}
BalanceRows == {i \in 1..Len(RowsAbove) : BalanceOfRow(RowsAbove[i]) # <<>>}

Greatest(S) == CHOOSE i \in S : \A j \in S : j <= i

\* C22: of the rows above the header that yield an account number, the last
\* one gives the value returned, and likewise for the closing balance; an
\* "Account Number" row followed by an "Account Name" row returns the name.
C22_LastRowWins ==
    Returned =>
        /\ attrs.account_number =
              IF AccountRows = {} THEN <<>> ELSE AccountOfRow(RowsAbove[Greatest(AccountRows)])
        /\ attrs.closing_balance =
              IF BalanceRows = {} THEN <<>> ELSE BalanceOfRow(RowsAbove[Greatest(BalanceRows)])
        /\ \A i \in 1..(Len(RowsAbove) - 1) :
              (RowsAbove[i] = AccountNext /\ RowsAbove[i + 1] = AccountName
               /\ Greatest(AccountRows) = i + 1) =>
                  attrs.account_number = <<"JOHN DOE">>

\* two rows above the header yield an account number, and the later one is returned
C22_Witness ==
    /\ Returned
    /\ \E i \in AccountRows : \E j \in AccountRows :
          /\ i < j
          /\ AccountOfRow(RowsAbove[i]) = <<"1100050449">>
          /\ AccountOfRow(RowsAbove[j]) = <<"JOHN DOE">>
    /\ attrs.account_number = <<"JOHN DOE">>

\* two rows above the header yield a closing balance, and the later one is returned
C22_WitnessBalance ==
    /\ Returned
    /\ \E i \in BalanceRows : \E j \in BalanceRows :
          i < j /\ BalanceOfRow(RowsAbove[i]) # BalanceOfRow(RowsAbove[j])
    /\ attrs.closing_balance = BalanceOfRow(RowsAbove[Greatest(BalanceRows)])

====
